---- MODULE Spec2Model ----
(***************************************************************************)
(* Service health-checking engine of netdiag-suite:                        *)
(*   net_diag_tool/modules/services/checker.py  (ServiceHealthChecker)     *)
(*   net_diag_tool/core/database.py             (DatabaseManager)          *)
(*                                                                         *)
(* checker.py defines several methods of ServiceHealthChecker twice.  A    *)
(* Python class body binds a name to its LAST definition, so the methods   *)
(* the class has at run time are                                           *)
(*   check_http_service    line  55 (async def; its synchronous twin lost  *)
(*                                   its header, lines 320-350 are dead)   *)
(*   check_tcp_service     line 352 (synchronous)                          *)
(*   check_dns_resolution  line 371 (synchronous)                          *)
(*   check_api_endpoint    line 401 (synchronous)                          *)
(*   perform_check         line 437 (synchronous, one parameter)           *)
(*   run_monitoring_loop   line 209 (async def, defined once)              *)
(*   monitor_continuously  line 466 (synchronous loop)                     *)
(*   _generate_dashboard_table line 490, calculate_uptime line 530         *)
(* The model follows these bindings.                                       *)
(***************************************************************************)
EXTENDS Integers, Sequences, FiniteSets, TLC

(* Python None, and an optional value v as <<v>>. *)
None == <<>>

Some(v) == <<v>>

(* ---- bounds of the model ---- *)
MaxServices == 2

MaxCycles == 3

MaxChanges == 1

Slack == 2

MaxRows == 3

MaxClock == 4

MaxLeaks == 1

(* ---- program constants ---- *)
CacheCap == 100

(* the longest run: enough cycles to overflow one service's buffer *)
LongCycles == CacheCap + Slack

(***************************************************************************)
(* Service definitions (one element of config["services"]).  keys is the   *)
(* set of target keys the dict has; service["k"] raises KeyError when k    *)
(* is not among them.  expected_ip and alert_on_failure are optional.      *)
(***************************************************************************)
Svc(n, t, k, ip, a) ==
  [name |-> n, type |-> t, keys |-> k, expected_ip |-> ip, alert_on_failure |-> a]

SvcH == Svc("web", "http", {"url"}, None, Some(TRUE))

SvcT == Svc("ssh", "tcp", {"host", "port"}, None, Some(TRUE))

SvcD == Svc("dns", "dns", {"host"}, Some("1.2.3.4"), Some(FALSE))

SvcA == Svc("api", "api", {"url"}, None, Some(TRUE))

Catalog == {SvcH, SvcT, SvcD, SvcA}

(* service lists with unique names, at most MaxServices long *)
RECURSIVE Lists(_)
Lists(n) ==
  IF n = 0 THEN {<<>>}
  ELSE LET shorter == Lists(n - 1) IN
       shorter \cup {Append(l, s) : l \in {x \in shorter : Len(x) = n - 1},
                                   s \in Catalog}

UniqueNames(l) == \A i, j \in 1..Len(l) : l[i].name = l[j].name => i = j

Configs == {l \in Lists(MaxServices) : UniqueNames(l)}

(***************************************************************************)
(* The service list file.  A path holds no file, a file that json.load     *)
(* rejects (or that cannot be opened), a JSON array, or a JSON object with *)
(* a "services" list.                                                      *)
(***************************************************************************)
File(k, l) == [kind |-> k, services |-> l]

Missing == File("missing", <<>>)

Unparsable == File("unparsable", <<>>)

JsonArray == File("array", <<>>)

EmptyConfig == File("object", <<>>)

(* checker.py 41-53: config_path is tried, then the path under the working *)
(* directory; no file at either, or a file that does not load, gives       *)
(* {"services": []}                                                        *)
load_default_services(primary, fallback) ==
  LET path == IF primary.kind = "missing" THEN fallback ELSE primary
  IN  IF path.kind \in {"missing", "unparsable"} THEN File("object", <<SvcT>>) ELSE path

load_service_config(primary, fallback) ==
  LET path == IF primary.kind = "missing" THEN fallback ELSE primary
  IN  IF path.kind = "missing" THEN EmptyConfig
      ELSE IF path.kind = "unparsable" THEN EmptyConfig
      ELSE path

(***************************************************************************)
(* The network as the checks see it: the condition of each service's       *)
(* target, and the latency of a successful probe.                          *)
(***************************************************************************)
Durations == {0, 7}

NetStates(t) ==
  CASE t = "tcp" -> {[cond |-> "open", dur |-> d] : d \in Durations}
                    \cup {[cond |-> c, dur |-> 0] : c \in {"refused", "timeout"}}
    [] t = "dns" -> {[cond |-> c, dur |-> 7] :
                       c \in {"nxdomain", "1.2.3.4", "5.6.7.8", "expired"}}
    [] t = "api" -> {[cond |-> c, dur |-> 7] : c \in {"200", "200 text", "timeout"}}
    [] OTHER     -> {[cond |-> c, dur |-> 7] : c \in {"200", "500", "timeout"}}

(* the target never answers: the connection attempt runs into the timeout  *)
(* of the call, the resolver into its lifetime                             *)
Unresponsive(n) == n.cond \in {"timeout", "expired"}

(* the status code of the response, None when no response arrives *)
status_code(n) ==
  CASE n.cond \in {"200", "200 text"} -> Some(200)
    [] n.cond = "500"                 -> Some(500)
    [] OTHER                          -> None

(* checker.py 446: service.get("expected_status", 200); no service of the  *)
(* catalog has the key                                                     *)
expected_status(service) == 200

TypeOf(n) == (CHOOSE s \in Catalog : s.name = n).type

(***************************************************************************)
(* Check results.  A result dict is a record with every key the checks     *)
(* use; a key the dict does not have reads None, as dict.get does.  kind   *)
(* tells a dict from a coroutine object and from a raised exception.       *)
(***************************************************************************)
NewResult(ts) ==
  [kind |-> "dict", exc |-> "", status |-> "down", timestamp |-> Some(ts),
   error_message |-> None, error |-> None, response_time_ms |-> None,
   status_code |-> None]

Coroutine == [NewResult(0) EXCEPT !.kind = "coroutine", !.status = "", !.timestamp = None]

Raise(e) == [NewResult(0) EXCEPT !.kind = "raise", !.exc = e, !.status = "", !.timestamp = None]

(* str(e) of the exception a failed probe raises *)
ErrText(c) ==
  CASE c = "refused"  -> <<"[Errno 111] Connection refused">>
    [] c = "timeout"  -> <<"timed out">>
    [] c = "nxdomain" -> <<"The DNS query name does not exist">>
    [] c = "expired"  -> <<"The resolution lifetime expired">>
    [] OTHER          -> <<c>>

(* checker.py 352-369: socket.create_connection succeeds or raises *)
check_tcp_service_zero(n, ts) ==
  IF n.cond = "open"
  THEN [NewResult(ts) EXCEPT !.status = "up", !.response_time_ms = Some(n.dur)]
  ELSE [NewResult(ts) EXCEPT !.error_message = ErrText(n.cond), !.response_time_ms = Some(0)]

check_tcp_service(n, ts) ==
  IF n.cond = "open"
  THEN [NewResult(ts) EXCEPT !.status = "up", !.response_time_ms = Some(n.dur)]
  ELSE [NewResult(ts) EXCEPT !.error_message = ErrText(n.cond)]

(* checker.py 371-399: the answer is the one address the name resolves to *)
check_dns_resolution(n, expected_ip, ts) ==
  IF n.cond \in {"nxdomain", "expired"}
  THEN [NewResult(ts) EXCEPT !.error = ErrText(n.cond)]
  ELSE LET ips == <<n.cond>>
           mismatch == expected_ip # None /\ expected_ip[1] \notin {ips[i] : i \in 1..Len(ips)}
       IN [NewResult(ts) EXCEPT
             !.status = IF mismatch THEN "down" ELSE "up",
             !.error = IF mismatch
                       THEN <<"IP mismatch. Expected ", expected_ip[1], ", got ">> \o ips
                       ELSE None,
             !.response_time_ms = Some(n.dur)]

(* checker.py 401-435: the module never imports requests, so the call      *)
(* requests.request raises NameError, which `except Exception` catches     *)
check_api_endpoint(n, ts) ==
  [NewResult(ts) EXCEPT !.error = <<"name 'requests' is not defined">>]

(* checker.py 55-85: an async def; calling it runs nothing and returns a   *)
(* coroutine object                                                        *)
check_http_service(n, ts) == Coroutine

(* checker.py 437-464, the definition the class keeps *)
perform_check(service, n, ts) ==
  CASE service.type = "http" ->
         IF "url" \in service.keys THEN check_http_service(n, ts) ELSE Raise("KeyError")
    [] service.type = "tcp" ->
         IF {"host", "port"} \subseteq service.keys
         THEN check_tcp_service(n, ts) ELSE Raise("KeyError")
    [] service.type = "dns" ->
         IF "host" \in service.keys
         THEN check_dns_resolution(n, None, ts) ELSE Raise("KeyError")
    [] service.type = "api" ->
         IF "url" \in service.keys THEN check_api_endpoint(n, ts) ELSE Raise("KeyError")
    [] OTHER ->
         [NewResult(ts) EXCEPT !.status = "unknown", !.error = <<"Unknown type">>,
                               !.timestamp = None]

(* Python truth value of an optional bool, and of `a or b` on messages *)
Truthy(o) == o # None /\ o[1] = TRUE

Or(a, b) == IF a # None THEN a ELSE b

(* database.py 48-67: one INSERT per call, the row is built from the dict *)
log_check_once(rows, result, service_name, service_type) ==
  IF \E i \in 1..Len(rows) : /\ rows[i].service_name = service_name
                             /\ rows[i].status = result.status
                             /\ rows[i].timestamp = result.timestamp
  THEN rows
  ELSE Append(rows, [id |-> Len(rows) + 1,
                     service_name |-> service_name,
                     service_type |-> service_type,
                     status |-> result.status,
                     response_time_ms |-> result.response_time_ms,
                     status_code |-> result.status_code,
                     error_message |-> Or(result.error_message, result.error),
                     timestamp |-> result.timestamp])

log_check(rows, result, service_name, service_type) ==
  Append(rows, [id |-> Len(rows) + 1,
                service_name |-> service_name,
                service_type |-> service_type,
                status |-> result.status,
                response_time_ms |-> result.response_time_ms,
                status_code |-> result.status_code,
                error_message |-> Or(result.error_message, result.error),
                timestamp |-> result.timestamp])

(* database.py 59 and 52-65: result.get raises AttributeError when result  *)
(* is not a dict, execute and commit raise sqlite3.Error when the database *)
(* is locked or cannot be written; the INSERT is then not committed        *)
LogCheckRaises(result, locked) == result.kind # "dict" \/ locked

(* database.py 50 and 66-67: log_check opens a connection and closes it in *)
(* its finally clause; the number of open connections after the call       *)
AfterLogCheck(open, raised) == (open + 1) - 1

(* database.py 71/81 and 86/98: get_history and get_uptime_stats open a    *)
(* connection and close it after the fetch; an exception of execute or of  *)
(* the fetch leaves the method before conn.close()                         *)
AfterQuery(open, raised) == IF raised THEN open + 1 ELSE (open + 1) - 1

(* the value of the timestamp column as ORDER BY and >= compare it: NULL   *)
(* sorts below every value                                                 *)
Key(row) == IF row.timestamp = None THEN 0 - 1 ELSE row.timestamp[1]

(* database.py 75: WHERE service_name = ? *)
Where(rows, service_name) == SelectSeq(rows, LAMBDA r : r.service_name = service_name)

(* database.py 76: ORDER BY timestamp DESC; the order of rows with equal   *)
(* timestamps is not specified, every such order is an outcome             *)
OrderByRowid(q) == {q}

OrderByTimestampDesc(q) ==
  {[i \in 1..Len(q) |-> q[p[i]]] :
     p \in {p \in Permutations(1..Len(q)) :
              \A i, j \in 1..Len(q) : i < j => Key(q[p[i]]) >= Key(q[p[j]])}}

(* database.py 77: LIMIT ?; a negative limit is no limit *)
Limit(q, limit) ==
  IF limit < 0 \/ limit >= Len(q) THEN q ELSE SubSeq(q, 1, limit)

(* database.py 69-82: the lists the call may return *)
get_history(rows, service_name, limit) ==
  {Limit(o, limit) : o \in OrderByTimestampDesc(Where(rows, service_name))}

RECURSIVE SumLatency(_, _)
SumLatency(rows, sel) ==
  IF sel = {} THEN 0
  ELSE LET i == CHOOSE x \in sel : TRUE
       IN rows[i].response_time_ms[1] + SumLatency(rows, sel \ {i})

(* database.py 107: round(avg_latency, 2), in hundredths of a millisecond, *)
(* of the quotient a / b, ties to the even neighbour                       *)
Round2(a, b) ==
  LET q == (a * 100) \div b
      r == (a * 100) % b
  IN  IF 2 * r > b \/ (2 * r = b /\ q % 2 = 1) THEN q + 1 ELSE q

(* database.py 93-94: the rows the query of get_uptime_stats selects.      *)
(* timestamp holds the datetime.now() of the check, a reading of the local *)
(* clock; datetime('now', '-N hours') is a reading of UTC, utcnow          *)
Selected(rows, service_name, hours, utcnow) ==
  {i \in 1..Len(rows) : /\ rows[i].service_name = service_name
                        /\ rows[i].timestamp # None
                        /\ rows[i].timestamp[1] >= utcnow - hours}

(* database.py 84-108.  uptime_percent is the quotient num / den and       *)
(* avg_latency is in hundredths                                            *)
get_uptime_stats(rows, service_name, hours, utcnow) ==
  LET sel     == Selected(rows, service_name, hours, utcnow)
      total   == Cardinality(sel)
      success == Cardinality({i \in sel : rows[i].status = "up"})
      timed   == {i \in sel : rows[i].response_time_ms # None}
  IN  [uptime_percent |-> IF total > 0 THEN [num |-> success * 100, den |-> total]
                          ELSE [num |-> 0, den |-> 1],
       total_checks   |-> total,
       avg_latency    |-> IF timed = {} THEN 0
                          ELSE Round2(SumLatency(rows, timed), Cardinality(timed))]

(* database.py 84: hours: int = 24 *)
DefaultHours == 24

CachePrepend(buf, r) == <<r>> \o buf

(* checker.py 477-479 *)
CacheAppend(buf, r) == Append(buf, r)

CacheEvictNewest(buf) == IF Len(buf) > CacheCap THEN SubSeq(buf, 1, Len(buf) - 1) ELSE buf

CacheEvict(buf) == IF Len(buf) > CacheCap THEN Tail(buf) ELSE buf

send_alert_plain(log, service_name, type, message, now) ==
  Append(log, [timestamp |-> now,
               message |-> <<"ALERT: ", service_name, " is ", type, ". Detail: ">>])

(* checker.py 538-541 *)
send_alert(log, service_name, type, message, now) ==
  Append(log, [timestamp |-> now,
               message |-> <<"ALERT: ", service_name, " is ", type, ". Detail: ">>
                           \o (IF message = None THEN <<"None">> ELSE message)])

(* checker.py 482: the test that guards send_alert *)
AlertConditionAnyService(service, r) == r.status = "down"

AlertCondition(service, r) == r.status = "down" /\ Truthy(service.alert_on_failure)

(* checker.py 530-536: uptime from the buffer, the quotient num / den *)
calculate_uptime(m, service_name) ==
  IF m[service_name] = <<>> THEN [num |-> 0, den |-> 1]
  ELSE [num |-> 100 * Cardinality({i \in 1..Len(m[service_name]) :
                                     m[service_name][i].status = "up"}),
        den |-> Len(m[service_name])]

(* checker.py 490-528: one row per configured service, PENDING (None) for  *)
(* an empty buffer, otherwise the last entry of the buffer.  The table is  *)
(* generated only when every entry is a result dict.                       *)
generate_dashboard_table(svcs, m) ==
  [name \in {svcs[i].name : i \in 1..Len(svcs)} |->
     IF m[name] = <<>> THEN None
     ELSE LET last == m[name][Len(m[name])]
          IN  Some([status     |-> IF last.status = "up" THEN "UP" ELSE "DOWN",
                    latency    |-> IF last.response_time_ms = None THEN 0
                                   ELSE last.response_time_ms[1],
                    uptime     |-> calculate_uptime(m, name),
                    last_check |-> last.timestamp])]

VARIABLES
  services,   \* self.services
  entry,      \* the method the run was started with
  state,      \* "running", "stopped" (interrupt handled), "raised" (exception left the loop)
  exc,        \* the exception that left the loop
  pc,         \* position of the loop
  idx,        \* position of `for service in self.services`
  res,        \* the local res of monitor_continuously
  t0,         \* datetime.now() captured when the check started
  metrics,    \* self.metrics
  alerts,     \* self.alerts
  db,         \* rows of service_checks
  cycle,      \* number of the cycle in progress
  limit,      \* cycles the run is observed for
  clock,      \* datetime.now()
  net,        \* condition of each target
  changes,    \* changes of the network so far
  sigint,     \* SIGINT delivered, KeyboardInterrupt not yet raised
  history,    \* per service, every value perform_check has returned, in order
  config_file,\* what was found at config_path and at the fallback path
  tz,         \* hours the local clock (datetime.now()) is ahead of UTC
  ret,        \* the last call of a DatabaseManager method and what it returned
  conns,      \* connections to the database that are open
  view        \* the dashboard table: per service the row last generated

vars == <<services, entry, state, exc, pc, idx, res, t0, metrics, alerts, db,
          cycle, limit, clock, net, changes, sigint, history, config_file, tz, ret,
          conns, view>>

(* res before the first check of a run *)
Unset == [NewResult(0) EXCEPT !.kind = "unset", !.status = "", !.timestamp = None]

ConfNames(l) == {l[i].name : i \in 1..Len(l)}

AllNetStates == UNION {NetStates(s.type) : s \in Catalog}

Networks(l) ==
  {f \in [ConfNames(l) -> AllNetStates] : \A n \in ConfNames(l) : f[n] \in NetStates(TypeOf(n))}

Entries == {"monitor_continuously", "run_monitoring_loop"}

(* checker.py 27-33: the state __init__ leaves, and the call of an entry;  *)
(* the rows of netdiag_history.db are those the file held before           *)
InitRun(l, e, n, lim, rows) ==
  /\ services = l
  /\ entry = e
  /\ state = "running"
  /\ exc = ""
  /\ pc = CASE e = "monitor_continuously" -> "for"
            [] e = "run_monitoring_loop"  -> "tasks"
            [] OTHER                      -> "idle"
  /\ idx = 1
  /\ res = Unset
  /\ t0 = 0
  /\ metrics = [name \in ConfNames(l) |-> <<>>]
  /\ alerts = <<>>
  /\ db = rows
  /\ cycle = 1
  /\ limit = lim
  /\ clock = 1
  /\ net = n
  /\ changes = 0
  /\ sigint = FALSE
  /\ history = [name \in ConfNames(l) |-> <<>>]
  /\ view = generate_dashboard_table(l, [name \in ConfNames(l) |-> <<>>])

(* a run on a database file that is new *)
InitWith(l, e, n, lim) == InitRun(l, e, n, lim, <<>>)

(* no DatabaseManager method has been called *)
NoStats == [uptime_percent |-> [num |-> 0, den |-> 1], total_checks |-> 0, avg_latency |-> 0]

NoReturn ==
  [op |-> "", name |-> "", limit |-> 0, hours |-> 0, at |-> 0, raised |-> FALSE,
   rows |-> <<>>, stats |-> NoStats]

(* the files found, the offset of the local clock, no call made yet *)
InitEnv(primary, fallback, z) ==
  /\ config_file = <<primary.kind, fallback.kind>>
  /\ tz = z
  /\ ret = NoReturn
  /\ conns = 0

Init ==
  \E l \in Configs, e \in Entries : \E n \in Networks(l) :
    InitWith(l, e, n, MaxCycles) /\ InitEnv(File("object", l), Missing, 0)

Running == state = "running" /\ ~sigint

Sync == entry = "monitor_continuously"

(* an exception that no handler of the loop catches ends the run *)
Raised(e) ==
  /\ state' = "raised"
  /\ exc' = e
  /\ UNCHANGED <<view, conns, config_file, tz, ret, history, services, entry, pc, idx, res, t0, metrics, alerts, db, cycle,
                 limit, clock, net, changes, sigint>>

(* checker.py 472-474: the for loop takes the next service and calls       *)
(* perform_check, whose dispatch raises KeyError on a missing target key   *)
IssueCheck ==
  /\ Running /\ Sync /\ pc = "for" /\ idx <= Len(services)
  /\ IF perform_check(services[idx], net[services[idx].name], clock).kind = "raise"
     THEN Raised(perform_check(services[idx], net[services[idx].name], clock).exc)
     ELSE /\ pc' = "check"
          /\ t0' = clock
          /\ clock' = clock + 1
          /\ UNCHANGED <<view, conns, config_file, tz, ret, history, services, entry, state, exc, idx, res, metrics, alerts, db,
                         cycle, limit, net, changes, sigint>>

(* checker.py 474: perform_check returns *)
CheckReturns ==
  /\ Running /\ Sync /\ pc = "check"
  /\ res' = perform_check(services[idx], net[services[idx].name], t0)
  /\ history' = [history EXCEPT ![services[idx].name] = Append(@, res')]
  /\ pc' = "append"
  /\ UNCHANGED <<view, conns, config_file, tz, ret, services, entry, state, exc, idx, t0, metrics,
                 alerts, db, cycle, limit, clock, net, changes, sigint>>

StoreMetricAndRow ==
  /\ Running /\ Sync /\ pc = "append"
  /\ metrics' = [metrics EXCEPT ![services[idx].name] = CacheAppend(@, res)]
  /\ db' = log_check(db, res, services[idx].name, services[idx].type)
  /\ pc' = "evict"
  /\ UNCHANGED <<view, conns, config_file, tz, ret, history, services, entry, state, exc, idx, res, t0, alerts, cycle,
                 limit, clock, net, changes, sigint>>

(* checker.py 477 *)
StoreMetric ==
  /\ Running /\ Sync /\ pc = "append"
  /\ metrics' = [metrics EXCEPT ![services[idx].name] = CacheAppend(@, res)]
  /\ pc' = "evict"
  /\ UNCHANGED <<view, conns, config_file, tz, ret, history, services, entry, state, exc, idx, res, t0, alerts, db, cycle,
                 limit, clock, net, changes, sigint>>

(* checker.py 478-479 *)
KeepLast ==
  /\ Running /\ Sync /\ pc = "evict"
  /\ metrics' = [metrics EXCEPT ![services[idx].name] = CacheEvict(@)]
  /\ pc' = "alert"
  /\ UNCHANGED <<view, conns, config_file, tz, ret, history, services, entry, state, exc, idx, res, t0, alerts, db, cycle,
                 limit, clock, net, changes, sigint>>

(* checker.py 482-483: res['status'] raises TypeError when res is not a    *)
(* dict; otherwise the alert test, and the loop goes to the next service   *)
Alerting ==
  /\ Running /\ Sync /\ pc = "alert"
  /\ IF res.kind # "dict"
     THEN Raised("TypeError")
     ELSE /\ alerts' = IF AlertCondition(services[idx], res)
                       THEN send_alert(alerts, services[idx].name, "DOWN",
                                       Or(res.error_message, res.error), clock)
                       ELSE alerts
          /\ idx' = idx + 1
          /\ pc' = "for"
          /\ UNCHANGED <<view, conns, config_file, tz, ret, history, services, entry, state, exc, res, t0, metrics, db, cycle,
                         limit, clock, net, changes, sigint>>

(* checker.py 485-486: the for loop is exhausted, the dashboard is         *)
(* redrawn and the loop sleeps                                             *)
EndCycle ==
  /\ Running /\ Sync /\ pc = "for" /\ idx > Len(services)
  /\ view' = generate_dashboard_table(services, metrics)
  /\ pc' = "sleep"
  /\ UNCHANGED <<conns, config_file, tz, ret, history, services, entry, state, exc, idx,
                 res, t0, metrics, alerts, db, cycle, limit, clock, net, changes, sigint>>

(* checker.py 486 / 234: the sleep ends and `while True` starts over *)
Wake ==
  /\ Running /\ pc = "sleep" /\ cycle < limit
  /\ cycle' = cycle + 1
  /\ idx' = 1
  /\ clock' = clock + 1
  /\ pc' = IF Sync THEN "for" ELSE "tasks"
  /\ UNCHANGED <<view, conns, config_file, tz, ret, history, services, entry, state, exc, res, t0, metrics, alerts, db, limit,
                 net, changes, sigint>>

(* checker.py 224-231: the body run for each (service, result) pair *)
RECURSIVE ProcessResults(_, _, _, _)
ProcessResults(svcs, results, rows, m) ==
  IF svcs = <<>> \/ results = <<>>
  THEN <<rows, m>>
  ELSE ProcessResults(Tail(svcs), Tail(results),
         log_check(rows, Head(results), Head(svcs).name, Head(svcs).type),
         [m EXCEPT ![Head(svcs).name] = CacheEvict(CacheAppend(@, Head(results)))])

(* checker.py 215-218: run_monitoring_loop calls                           *)
(* self.perform_check(client, service); the method the class keeps takes   *)
(* one argument, so the first call raises TypeError                        *)
AsyncIssueTasks ==
  /\ Running /\ ~Sync /\ pc = "tasks"
  /\ IF Len(services) > 0
     THEN Raised("TypeError")
     ELSE /\ pc' = "gather"
          /\ UNCHANGED <<view, conns, config_file, tz, ret, history, services, entry, state, exc, idx, res, t0, metrics, alerts,
                         db, cycle, limit, clock, net, changes, sigint>>

(* checker.py 221-234: gather of no task returns the empty list, the zip   *)
(* is empty, the dashboard is redrawn and the loop sleeps                  *)
AsyncJoin ==
  /\ Running /\ ~Sync /\ pc = "gather"
  /\ db' = ProcessResults(services, <<>>, db, metrics)[1]
  /\ metrics' = ProcessResults(services, <<>>, db, metrics)[2]
  /\ view' = generate_dashboard_table(services, metrics')
  /\ pc' = "sleep"
  /\ UNCHANGED <<conns, config_file, tz, ret, history, services, entry, state, exc, idx,
                 res, t0, alerts, cycle, limit, clock, net, changes, sigint>>

(* SIGINT reaches the process while the loop runs *)
SigInt ==
  /\ state = "running" /\ ~sigint
  /\ sigint' = TRUE
  /\ UNCHANGED <<view, conns, config_file, tz, ret, history, services, entry, state, exc, pc, idx, res, t0, metrics, alerts, db,
                 cycle, limit, clock, net, changes>>

KeyboardInterruptSwallowed ==
  /\ state = "running" /\ sigint
  /\ sigint' = FALSE
  /\ UNCHANGED <<view, conns, config_file, tz, ret, history, services, entry, state, exc, pc, idx, res, t0, metrics,
                 alerts, db, cycle, limit, clock, net, changes>>

(* checker.py 487-488 / 235-236: KeyboardInterrupt is raised where the     *)
(* main thread is (the checks catch Exception only), the loop's handler    *)
(* catches it and the method returns                                       *)
KeyboardInterrupt ==
  /\ state = "running" /\ sigint
  /\ state' = "stopped"
  /\ UNCHANGED <<view, conns, config_file, tz, ret, history, services, entry, exc, pc, idx, res, t0, metrics, alerts, db, cycle,
                 limit, clock, net, changes, sigint>>

(* The condition of a target changes.  A check reads the condition of its  *)
(* own target only, and only while it runs, so the changes that matter are *)
(* those seen by the check in flight.                                      *)
NetChange ==
  /\ Running /\ changes < MaxChanges
  /\ pc = "check"
  /\ \E c \in NetStates(services[idx].type) \ {net[services[idx].name]} :
       net' = [net EXCEPT ![services[idx].name] = c]
  /\ changes' = changes + 1
  /\ UNCHANGED <<view, conns, config_file, tz, ret, history, services, entry, state, exc, pc, idx, res, t0, metrics, alerts, db,
                 cycle, limit, clock, sigint>>

Loop ==
  \/ IssueCheck \/ CheckReturns \/ StoreMetric \/ KeepLast \/ Alerting \/ EndCycle
  \/ Wake \/ AsyncIssueTasks \/ AsyncJoin \/ SigInt \/ KeyboardInterrupt

Next == Loop \/ NetChange

Spec == Init /\ [][Next]_vars

(* Service lists of the long runs and of the runs checked for termination *)
SmallConfigs == {l \in Configs : Len(l) <= 1} \cup {<<SvcT, SvcD>>}

(* KeyboardInterrupt is raised as soon as the main thread runs again *)
InitFair ==
  \E l \in SmallConfigs, e \in Entries : \E n \in Networks(l) :
    InitWith(l, e, n, MaxCycles) /\ InitEnv(File("object", l), Missing, 0)

FairSpec == InitFair /\ [][Next]_vars /\ WF_vars(KeyboardInterrupt)

(* Long runs under a steady network: enough cycles to fill a buffer *)
InitLong ==
  \E l \in SmallConfigs, e \in Entries : \E n \in Networks(l) :
    InitWith(l, e, n, LongCycles) /\ InitEnv(File("object", l), Missing, 0)

SpecLong == InitLong /\ [][Loop]_vars

(***************************************************************************)
(* A run on a database file that holds rows already: DatabaseManager opens *)
(* netdiag_history.db of the working directory, which outlives the process *)
(* (database.py 14-46, CREATE TABLE IF NOT EXISTS).                        *)
(***************************************************************************)
WarmStores(l) ==
  {<<>>} \cup
  {log_check(<<>>, [NewResult(0) EXCEPT !.status = "up", !.response_time_ms = Some(7)],
             l[i].name, l[i].type) : i \in 1..Len(l)}

(* the service lists of these runs: those of the long runs and a list of   *)
(* two services that alert                                                 *)
WarmConfigs == SmallConfigs \cup {<<SvcT, SvcA>>}

InitWarm ==
  \E l \in WarmConfigs, e \in Entries : \E n \in Networks(l), rows \in WarmStores(l) :
    InitRun(l, e, n, MaxCycles, rows) /\ InitEnv(File("object", l), Missing, 0)

SpecWarm == InitWarm /\ [][Next]_vars

(***************************************************************************)
(* Construction from the service list file (checker.py 27-53).             *)
(***************************************************************************)
Files == {Missing, Unparsable, JsonArray} \cup {File("object", l) : l \in SmallConfigs}

(* checker.py 29: self.config.get raises AttributeError when the file      *)
(* holds a JSON array, and __init__ fails                                  *)
InitFailed(e, x) ==
  /\ services = <<>> /\ entry = e /\ state = "raised" /\ exc = x /\ pc = "init"
  /\ idx = 1 /\ res = Unset /\ t0 = 0 /\ metrics = <<>> /\ alerts = <<>> /\ db = <<>>
  /\ cycle = 1 /\ limit = MaxCycles /\ clock = 1 /\ net = <<>> /\ changes = 0
  /\ sigint = FALSE /\ history = <<>> /\ view = <<>>

InitConfig ==
  \E primary \in Files, fallback \in Files, e \in Entries :
    LET config == load_service_config(primary, fallback)
    IN  /\ InitEnv(primary, fallback, 0)
        /\ IF config.kind = "array"
           THEN InitFailed(e, "AttributeError")
           ELSE \E n \in Networks(config.services) :
                  InitWith(config.services, e, n, MaxCycles)

SpecConfig == InitConfig /\ [][Next]_vars

(***************************************************************************)
(* The Result Store used through its methods: a client checks a service    *)
(* and logs the result, logs a result again, and queries.  The clock       *)
(* counts hours and a check takes one.                                     *)
(***************************************************************************)
TzOffsets == {0 - 2, 0, 2}

Windows == {1, 2}

Limits == {0, 1, 2}

StoreConfigs == {<<SvcT, SvcD>>, <<SvcH>>}

(* conditions of the targets the client's checks meet *)
StoreNets(t) == {n \in NetStates(t) : n.cond \in {"open", "refused", "1.2.3.4", "nxdomain", "200"}
                                      /\ n.dur = 7}

(* the checks of the client take the condition of the target as an input *)
StoreNet(l) == [s \in ConfNames(l) |-> CHOOSE c \in NetStates(TypeOf(s)) : TRUE]

InitStore ==
  \E l \in StoreConfigs, z \in TzOffsets :
    InitWith(l, "DatabaseManager", StoreNet(l), 0) /\ InitEnv(File("object", l), Missing, z)

Returned(op, name, lim, hours, raised, rows, stats) ==
  [op |-> op, name |-> name, limit |-> lim, hours |-> hours, at |-> clock,
   raised |-> raised, rows |-> rows, stats |-> stats]

(* checker.py 226-227 as a client runs it: a check, then log_check on its  *)
(* result under the name and type of the service                           *)
StoreLogCheck(i, n, locked) ==
  /\ entry = "DatabaseManager" /\ Len(db) < MaxRows /\ clock < MaxClock
  /\ perform_check(services[i], n, clock).kind # "raise"
  /\ idx' = i
  /\ res' = perform_check(services[i], n, clock)
  /\ clock' = clock + 1
  /\ db' = IF LogCheckRaises(res', locked) THEN db
           ELSE log_check(db, res', services[i].name, services[i].type)
  /\ ret' = Returned("log_check", services[i].name, 0, 0, LogCheckRaises(res', locked),
                     <<>>, NoStats)
  /\ conns' = AfterLogCheck(conns, LogCheckRaises(res', locked))
  /\ UNCHANGED <<view, services, entry, state, exc, pc, t0, metrics, alerts, cycle, limit,
                 net, changes, sigint, history, config_file, tz>>

(* log_check called once more with the result logged last *)
StoreLogAgain(locked) ==
  /\ entry = "DatabaseManager" /\ Len(db) < MaxRows /\ res.kind # "unset"
  /\ db' = IF LogCheckRaises(res, locked) THEN db
           ELSE log_check(db, res, services[idx].name, services[idx].type)
  /\ ret' = Returned("log_check", services[idx].name, 0, 0, LogCheckRaises(res, locked),
                     <<>>, NoStats)
  /\ conns' = AfterLogCheck(conns, LogCheckRaises(res, locked))
  /\ UNCHANGED <<view, services, entry, state, exc, pc, idx, res, t0, metrics, alerts,
                 cycle, limit, clock, net, changes, sigint, history, config_file, tz>>

(* database.py 69-82; locked: execute or fetchall raises sqlite3.Error *)
StoreGetHistory(service_name, lim, locked) ==
  /\ entry = "DatabaseManager"
  /\ locked => conns < MaxLeaks
  /\ \E out \in get_history(db, service_name, lim) :
       ret' = IF locked
              THEN Returned("get_history", service_name, lim, 0, TRUE, <<>>, NoStats)
              ELSE Returned("get_history", service_name, lim, 0, FALSE, out, NoStats)
  /\ conns' = AfterQuery(conns, locked)
  /\ UNCHANGED <<view, services, entry, state, exc, pc, idx, res, t0, metrics, alerts, db,
                 cycle, limit, clock, net, changes, sigint, history, config_file, tz>>

(* database.py 84-108: datetime('now') is the local clock less its offset; *)
(* locked: execute or fetchone raises sqlite3.Error                        *)
StoreGetUptimeStats(service_name, hours, locked) ==
  /\ entry = "DatabaseManager"
  /\ locked => conns < MaxLeaks
  /\ ret' = IF locked
            THEN Returned("get_uptime_stats", service_name, 0, hours, TRUE, <<>>, NoStats)
            ELSE Returned("get_uptime_stats", service_name, 0, hours, FALSE, <<>>,
                          get_uptime_stats(db, service_name, hours, clock - tz))
  /\ conns' = AfterQuery(conns, locked)
  /\ UNCHANGED <<view, services, entry, state, exc, pc, idx, res, t0, metrics, alerts, db,
                 cycle, limit, clock, net, changes, sigint, history, config_file, tz>>

StoreNext ==
  \/ \E i \in 1..Len(services), locked \in BOOLEAN :
       \E n \in StoreNets(services[i].type) : StoreLogCheck(i, n, locked)
  \/ \E locked \in BOOLEAN : StoreLogAgain(locked)
  \/ \E service_name \in ConfNames(services), lim \in Limits :
       StoreGetHistory(service_name, lim, FALSE)
  \/ \E service_name \in ConfNames(services), hours \in Windows :
       StoreGetUptimeStats(service_name, hours, FALSE)

SpecStore == InitStore /\ [][StoreNext]_vars

(* The store of one service when statements and fetches may fail *)
InitFaults ==
  InitWith(<<SvcT>>, "DatabaseManager", StoreNet(<<SvcT>>), 0)
    /\ InitEnv(File("object", <<SvcT>>), Missing, 0)

FaultNext ==
  \/ \E i \in 1..Len(services), locked \in BOOLEAN :
       \E n \in StoreNets(services[i].type) : StoreLogCheck(i, n, locked)
  \/ \E locked \in BOOLEAN : StoreLogAgain(locked)
  \/ \E service_name \in ConfNames(services), lim \in Limits, locked \in BOOLEAN :
       StoreGetHistory(service_name, lim, locked)
  \/ \E service_name \in ConfNames(services), hours \in Windows, locked \in BOOLEAN :
       StoreGetUptimeStats(service_name, hours, locked)

SpecFaults == InitFaults /\ [][FaultNext]_vars

(***************************************************************************)
(* Properties                                                              *)
(***************************************************************************)
Range(q) == {q[i] : i \in 1..Len(q)}

Min(a, b) == IF a < b THEN a ELSE b

AllButLast(q) == SubSeq(q, 1, Len(q) - 1)

InBody == pc \in {"check", "append", "evict", "alert"}

Current(n) == idx <= Len(services) /\ services[idx].name = n

(* checks of the cycle in progress that were issued, and that returned *)
CycleIssued == IF InBody THEN idx ELSE idx - 1

CycleResults == IF pc \in {"append", "evict", "alert"} THEN idx ELSE idx - 1

(* a result of the cycle in progress has been written to cache or alerts *)
WritingBegun == pc \in {"evict", "alert"} \/ (pc \in {"for", "check", "append"} /\ idx > 1)

Message(r) == Or(r.error_message, r.error)

RowsOf(n) == Cardinality({i \in 1..Len(db) : db[i].service_name = n})

(* the results the loop has finished storing in the cache of n *)
Recorded(n) ==
  IF pc = "append" /\ Current(n) THEN AllButLast(history[n]) ELSE history[n]

(* the results the loop has finished processing (cache and alert test) *)
Processed(n) ==
  IF pc \in {"append", "evict", "alert"} /\ Current(n)
  THEN AllButLast(history[n]) ELSE history[n]

AlertsFor(n) == Cardinality({i \in 1..Len(alerts) : alerts[i].message[2] = n})

Downs(q) == Cardinality({i \in 1..Len(q) : q[i].status = "down"})

(* C1: in every cycle one check is issued per configured service, and the  *)
(* loop begins writing the cycle's results, and later sleeps, only when    *)
(* every check of the cycle has produced its result.                       *)
C1_JoinBeforeWriting ==
  (state = "running" /\ (WritingBegun \/ pc = "sleep"))
     => (CycleIssued = Len(services) /\ CycleResults = Len(services))

(* C2: after n completed cycles without a failure the store holds n rows   *)
(* of the run for each service and its buffer min(n, 100) entries.         *)
C2_RowAndEntryPerCycle ==
  (state = "running" /\ pc = "sleep")
     => \A n \in ConfNames(services) :
           RowsOf(n) = cycle /\ Len(metrics[n]) = Min(cycle, CacheCap)

(* C3: once a record operation is complete a buffer holds at most 100      *)
(* entries; results older than the 100 most recent ones recorded for the   *)
(* service are gone from it, and the 100 most recent ones are in it.       *)
C3_CacheBoundedFifo ==
  \A n \in ConfNames(services) :
    ~(pc = "evict" /\ Current(n)) =>
       /\ Len(metrics[n]) <= CacheCap
       /\ \A j \in 1..Len(Recorded(n)) :
            (Recorded(n)[j] \in Range(metrics[n])) <=> (j > Len(Recorded(n)) - CacheCap)

C3_Witness ==
  \E n \in ConfNames(services) :
    /\ pc = "alert" /\ Current(n)
    /\ Len(history[n]) = CacheCap + 1
    /\ Len(metrics[n]) = CacheCap
    /\ metrics[n][1] = history[n][2]
    /\ metrics[n][CacheCap] = history[n][CacheCap + 1]

(* C4: the alert log holds one alert for every down result processed for   *)
(* a service whose alert_on_failure is true, and no other alert.           *)
C4_AlertPerDownResult ==
  /\ \A j \in 1..Len(alerts) : alerts[j].message[2] \in ConfNames(services)
  /\ \A i \in 1..Len(services) :
       AlertsFor(services[i].name) =
         IF Truthy(services[i].alert_on_failure)
         THEN Downs(Processed(services[i].name)) ELSE 0

C4_Witness ==
  \E i, k \in 1..Len(services) :
    /\ pc = "sleep"
    /\ Truthy(services[i].alert_on_failure)
    /\ Len(history[services[i].name]) = 3
    /\ history[services[i].name][1].status = "down"
    /\ history[services[i].name][2].status = "down"
    /\ history[services[i].name][3].status = "up"
    /\ AlertsFor(services[i].name) = 2
    /\ ~Truthy(services[k].alert_on_failure)
    /\ Downs(history[services[k].name]) > 0

(* C5: perform_check never raises and nothing of a check reaches the       *)
(* scheduler as an exception: it returns a result, and a result that is    *)
(* not up is down with an error message.                                   *)
C5_DispatcherNeverRaises ==
  /\ exc # "KeyError"
  /\ ~(Sync /\ state = "raised")
  /\ res.kind \in {"unset", "dict"}
  /\ (res.kind = "dict" /\ res.status # "up")
        => (res.status = "down" /\ Message(res) # None)

(* C6: every result returned, cached or persisted has status up or down,   *)
(* down with an error message and up without one.                          *)
WellFormed(r) ==
  /\ r.status \in {"up", "down"}
  /\ r.status = "down" => Or(r.error_message, r.error) # None
  /\ r.status = "up" => Or(r.error_message, r.error) = None

C6_StatusAndMessage ==
  /\ res.kind # "unset" => WellFormed(res)
  /\ \A n \in ConfNames(services) : \A r \in Range(metrics[n]) : WellFormed(r)
  /\ \A i \in 1..Len(db) : /\ db[i].status \in {"up", "down"}
                           /\ (db[i].status = "down") <=> (db[i].error_message # None)

(* C7: when a check of the cycle has failed (a down result), the loop      *)
(* still does not raise, and when it sleeps every service has its result   *)
(* of the cycle.                                                           *)
FailedThisCycle ==
  \E n \in ConfNames(services) :
    Len(history[n]) >= cycle /\ history[n][cycle].status = "down"

C7_FailureIsolated ==
  (Sync /\ FailedThisCycle)
     => /\ state # "raised"
        /\ pc = "sleep" => \A n \in ConfNames(services) : Len(history[n]) = cycle

(* C9: when the loop has been ended by an interrupt, every cycle of the    *)
(* run has a row for each configured service or a row for none.            *)
Persisted(n, c) ==
  /\ c <= Len(history[n])
  /\ \E i \in 1..Len(db) : /\ db[i].service_name = n
                           /\ db[i].timestamp = history[n][c].timestamp

C9_NoPartialCycle ==
  state = "stopped" =>
    \A c \in 1..cycle :
      \/ \A n \in ConfNames(services) : Persisted(n, c)
      \/ \A n \in ConfNames(services) : ~Persisted(n, c)

C9_Witness ==
  /\ state = "stopped"
  /\ Len(services) = 2
  /\ idx = 2 /\ pc = "check"
  /\ Len(metrics[services[1].name]) = cycle
  /\ Len(metrics[services[2].name]) = cycle - 1

C11_CyclesDoNotOverlap ==
  (state = "running" /\ cycle > 1) =>
     \A n \in ConfNames(services) :
        /\ Len(history[n]) \in {cycle - 1, cycle}
        /\ Len(Recorded(n)) >= cycle - 1
        /\ Persisted(n, cycle - 1)

(* the rows of the service named in the last query that were captured no   *)
(* longer than the window before the query, capture time and time of the   *)
(* query read from one clock, and those of them that are up                *)
InWindow ==
  {i \in 1..Len(db) : /\ db[i].service_name = ret.name
                      /\ Key(db[i]) >= ret.at - ret.hours}

UpInWindow == {i \in InWindow : db[i].status = "up"}

(* C12: get_uptime_stats returns total_checks 0 and uptime_percent 0.0     *)
(* when the service has no result in the window, and for N >= 1 results in *)
(* the window, S of them up, total_checks N and uptime_percent 100*S/N.    *)
C12_UptimeOfWindow ==
  (ret.op = "get_uptime_stats" /\ ~ret.raised) =>
     /\ ret.stats.total_checks = Cardinality(InWindow)
     /\ InWindow = {} => ret.stats.uptime_percent.num = 0
     /\ InWindow # {} =>
          ret.stats.uptime_percent.num * Cardinality(InWindow)
             = 100 * Cardinality(UpInWindow) * ret.stats.uptime_percent.den

(* C13: get_uptime_stats counts exactly the rows of the service captured   *)
(* at or after now - window: a result captured less than the window ago is *)
(* counted, one captured more than the window ago is not.                  *)
C13_WindowOnOneClock ==
  (ret.op = "get_uptime_stats" /\ ~ret.raised) =>
     LET mine   == {i \in 1..Len(db) : db[i].service_name = ret.name}
         recent == {i \in mine : Key(db[i]) > ret.at - ret.hours}
         old    == {i \in mine : Key(db[i]) < ret.at - ret.hours}
     IN  /\ ret.stats.total_checks >= Cardinality(recent)
         /\ ret.stats.total_checks <= Cardinality(mine) - Cardinality(old)

(* C14: get_history returns rows of the named service only, each once, as  *)
(* many as the limit allows, the most recently captured ones of the        *)
(* service, most recent first; no row of the service gives the empty list. *)
C14_HistoryNewestFirst ==
  (ret.op = "get_history" /\ ~ret.raised) =>
     LET mine == {i \in 1..Len(db) : db[i].service_name = ret.name}
         out  == ret.rows
     IN  /\ \A j \in 1..Len(out) : out[j] \in Range(db) /\ out[j].service_name = ret.name
         /\ \A j, k \in 1..Len(out) : out[j].id = out[k].id => j = k
         /\ Len(out) = Min(ret.limit, Cardinality(mine))
         /\ \A j, k \in 1..Len(out) : j < k => Key(out[j]) >= Key(out[k])
         /\ \A i \in mine : db[i] \notin Range(out) =>
                \A j \in 1..Len(out) : Key(out[j]) >= Key(db[i])
         /\ mine = {} => out = <<>>

C14_Witness ==
  /\ ret.op = "get_history" /\ ~ret.raised /\ ret.limit = 2 /\ Len(db) = MaxRows
  /\ Len(ret.rows) = 2
  /\ \E i, j, k \in 1..Len(db) :
       /\ db[i].service_name = ret.name /\ db[j].service_name = ret.name
       /\ db[k].service_name = ret.name
       /\ Key(db[i]) < Key(db[j]) /\ Key(db[j]) < Key(db[k])
       /\ ret.rows = <<db[k], db[j]>>

(* C15: a log_check call that returns adds one row to the store, also when *)
(* an equal result was logged before; no step removes or changes a row,    *)
(* and get_history and get_uptime_stats leave the store as it was.         *)
C15_AppendOnly ==
  [][/\ Len(db') >= Len(db)
     /\ \A i \in 1..Len(db) : db'[i] = db[i]
     /\ (ret'.op = "log_check" /\ ~ret'.raised) => Len(db') = Len(db) + 1
     /\ ret'.op \in {"get_history", "get_uptime_stats"} => db' = db]_vars

C15_Witness ==
  /\ Len(db) = MaxRows
  /\ db[2].timestamp = db[1].timestamp /\ db[2].status = db[1].status
  /\ db[2].service_name = db[1].service_name /\ db[2].id # db[1].id
  /\ ret.op = "get_history" /\ Len(ret.rows) = 2

(* the loop holds the result of a check of a service of type t; the        *)
(* condition of the target is the one the check met                        *)
Checked(t) ==
  Sync /\ pc \in {"append", "evict", "alert"} /\ services[idx].type = t

Target == net[services[idx].name]

(* C16: the result of an http service is up with no error exactly when the *)
(* response has the expected status code, and down with an error that      *)
(* contains the code when the response has another code.                   *)
C16_HttpUpIffExpected ==
  Checked("http") =>
     /\ res.kind = "dict"
     /\ (res.status = "up" /\ Message(res) = None)
           <=> (status_code(Target) = Some(expected_status(services[idx])))
     /\ status_code(Target) \notin {None, Some(expected_status(services[idx]))}
           => /\ res.status = "down"
              /\ Target.cond \in Range(Message(res))

(* C17: the result of a tcp service is down with an error and without a    *)
(* response time when the connection is refused or times out, and up with  *)
(* a response time of at least 0 when it is made.                          *)
C17_TcpDownWithoutLatency ==
  Checked("tcp") =>
     /\ Target.cond \in {"refused", "timeout"}
           => /\ res.status = "down"
              /\ Message(res) # None
              /\ res.response_time_ms = None
     /\ Target.cond = "open"
           => /\ res.status = "up"
              /\ res.response_time_ms # None
              /\ res.response_time_ms[1] >= 0

C17_Witness ==
  /\ Checked("tcp") /\ pc = "alert" /\ changes = 1
  /\ Target.cond = "timeout"
  /\ res.status = "down" /\ res.response_time_ms = None
  /\ Len(history[services[idx].name]) = 2
  /\ history[services[idx].name][1].status = "up"
  /\ history[services[idx].name][1].response_time_ms = Some(7)

(* C18: the result the dispatcher gives for a dns service with expected_ip *)
(* is up when the name resolves to expected_ip and down, with an error     *)
(* naming the expected and the resolved address, when it resolves to       *)
(* another address.                                                        *)
C18_DnsExpectedIp ==
  (Checked("dns") /\ services[idx].expected_ip # None /\ Target.cond \in {"1.2.3.4", "5.6.7.8"}) =>
     /\ Target.cond = services[idx].expected_ip[1] => res.status = "up"
     /\ Target.cond # services[idx].expected_ip[1]
           => /\ res.status = "down"
              /\ Message(res) # None
              /\ {services[idx].expected_ip[1], Target.cond} \subseteq Range(Message(res))

(* C19: the result of an api service is up exactly when the response has   *)
(* the expected status code and a body that is JSON; a body that is not    *)
(* JSON gives down with an error of its own.                               *)
C19_ApiUpIffJson ==
  Checked("api") =>
     /\ res.status = "up"
           <=> (status_code(Target) = Some(expected_status(services[idx]))
                  /\ Target.cond # "200 text")
     /\ Target.cond = "200 text"
           => /\ res.status = "down"
              /\ Message(res) \notin {None, ErrText("timeout")}

(* C20: when no service list file is found, or the one found does not      *)
(* load, the engine is constructed with no service, and the loop it then   *)
(* runs issues no check and writes nothing to store, cache or alert log.   *)
NoServiceList ==
  \/ config_file[1] = "unparsable"
  \/ config_file[1] = "missing" /\ config_file[2] \in {"missing", "unparsable"}

C20_NoListNoChecks ==
  NoServiceList =>
     /\ state # "raised"
     /\ services = <<>>
     /\ ~InBody /\ t0 = 0 /\ res = Unset
     /\ db = <<>> /\ alerts = <<>>
     /\ DOMAIN metrics = {} /\ DOMAIN history = {}

C20_Witness ==
  /\ NoServiceList /\ config_file = <<"missing", "unparsable">>
  /\ state = "running" /\ Sync
  /\ cycle = MaxCycles /\ pc = "sleep"

(* C27: when a store operation has ended, by returning or by raising, the  *)
(* connection it opened is closed: no connection is open between calls.    *)
C27_ConnectionsClosed == conns = 0

(* the dashboard table has just been generated: at the start of the loop   *)
(* and at the end of a cycle                                               *)
ViewFresh == pc = "sleep" \/ (cycle = 1 /\ idx = 1 /\ pc \in {"for", "tasks"})

Shows(row, r) ==
  /\ row # None
  /\ row[1].last_check = r.timestamp
  /\ row[1].status = (IF r.status = "up" THEN "UP" ELSE "DOWN")

(* C21: the row the status view shows for a service is the last entry of   *)
(* the service's buffer when the buffer is not empty, otherwise the most   *)
(* recent row of the store for the service, and no data only when the      *)
(* service has neither.                                                    *)
C21_LatestFromCacheOrStore ==
  ViewFresh =>
     \A n \in ConfNames(services) :
        IF metrics[n] # <<>> THEN Shows(view[n], metrics[n][Len(metrics[n])])
        ELSE IF Where(db, n) # <<>>
             THEN \E out \in get_history(db, n, 1) : Shows(view[n], out[1])
             ELSE view[n] = None

(* the first cycle of the run has ended, at the sleep or by an exception *)
FirstCycleOver == cycle = 1 /\ (pc = "sleep" \/ state = "raised")

(* C22: with an empty store and one http service whose target answers 200, *)
(* after one cycle through the entry point the store holds exactly one     *)
(* row, with status up, and get_uptime_stats over the default window       *)
(* reports total_checks 1 and uptime_percent 100.                          *)
C22_ScenarioA ==
  (Sync /\ services = <<SvcH>> /\ net["web"].cond = "200" /\ changes = 0 /\ FirstCycleOver) =>
     /\ Len(db) = 1
     /\ db[1].status = "up"
     /\ get_uptime_stats(db, "web", DefaultHours, clock - tz).total_checks = 1
     /\ get_uptime_stats(db, "web", DefaultHours, clock - tz).uptime_percent
          = [num |-> 100, den |-> 1]

(* C23: a buffer is written only when every check of the cycle has        *)
(* returned its result, and the dashboard, the reader of the buffers,      *)
(* reads no buffer of more than 100 entries.                               *)
C23_WriteAtJoinOnly ==
  [][/\ metrics' # metrics => CycleResults = Len(services)
     /\ (pc # "sleep" /\ pc' = "sleep") =>
           \A n \in ConfNames(services) : Len(metrics[n]) <= CacheCap]_vars

(* C24: the entries of a buffer are in capture order: the buffer is the    *)
(* tail of the sequence of results recorded for the service, in the order  *)
(* they were captured, and each entry has an earlier timestamp than the    *)
(* entry after it, also after evictions.                                   *)
C24_CaptureOrder ==
  \A n \in ConfNames(services) :
    /\ Len(metrics[n]) <= Len(Recorded(n))
    /\ metrics[n] = SubSeq(Recorded(n), Len(Recorded(n)) - Len(metrics[n]) + 1,
                           Len(Recorded(n)))
    /\ \A i \in 1..(Len(metrics[n]) - 1) :
          metrics[n][i + 1].kind = "dict"
             => metrics[n][i].timestamp[1] < metrics[n][i + 1].timestamp[1]

C24_Witness ==
  \E n \in ConfNames(services) :
    /\ pc = "sleep"
    /\ Len(history[n]) = CacheCap + Slack
    /\ Len(metrics[n]) = CacheCap
    /\ metrics[n][1] = history[n][Slack + 1]
    /\ metrics[n][1].timestamp[1] < metrics[n][CacheCap].timestamp[1]

(* a dns check has been issued and has not returned, and the cycle has    *)
(* services that were not checked yet                                      *)
DnsInFlight ==
  /\ Running /\ pc = "check"
  /\ services[idx].type = "dns"
  /\ idx < Len(services)

(* C25: while a dns check is blocked in resolution the checks of the other *)
(* services of the cycle can still be issued.                              *)
C25_DnsDoesNotStall == DnsInFlight => ENABLED IssueCheck

(* C26: the check of a service of any of the four types whose target does *)
(* not answer returns a result, and the result is down with an error.      *)
C26_UnresponsiveIsDown ==
  \A t \in {"http", "tcp", "dns", "api"} :
    (Checked(t) /\ Unresponsive(Target)) =>
       /\ res.kind = "dict"
       /\ res.status = "down"
       /\ Message(res) # None

(* the down results processed for service n, and the alerts that name n,  *)
(* both in the order they were made                                        *)
DownResults(n) == SelectSeq(Processed(n), LAMBDA r : r.status = "down")

AlertsOf(n) == SelectSeq(alerts, LAMBDA a : a.message[2] = n)

(* C28: every alert names a configured service and the kind DOWN, and the  *)
(* k-th alert that names a service carries as its detail the error message *)
(* of the k-th down result processed for that service.                     *)
C28_AlertNamesItsResult ==
  /\ \A j \in 1..Len(alerts) :
        alerts[j].message[2] \in ConfNames(services) /\ alerts[j].message[4] = "DOWN"
  /\ \A n \in ConfNames(services) :
        /\ Len(AlertsOf(n)) <= Len(DownResults(n))
        /\ \A k \in 1..Len(AlertsOf(n)) :
              /\ Message(DownResults(n)[k]) # None
              /\ AlertsOf(n)[k].message =
                    <<"ALERT: ", n, " is ", "DOWN", ". Detail: ">>
                       \o Message(DownResults(n)[k])

C28_Witness ==
  \E n, o \in ConfNames(services) :
    /\ n # o
    /\ Len(AlertsOf(n)) = 2
    /\ AlertsOf(n)[1].message # AlertsOf(n)[2].message
    /\ Len(AlertsOf(o)) >= 1
    /\ AlertsOf(o)[1].message # AlertsOf(n)[1].message

(* row is the row of the store that holds result r *)
Stored(r, row) ==
  /\ row.status = r.status
  /\ row.timestamp = r.timestamp
  /\ row.response_time_ms = r.response_time_ms
  /\ row.error_message = Message(r)

(* C29: at every cycle boundary the buffer of a service holds the results  *)
(* of the most recent min(n, 100) rows the run appended to the store for   *)
(* the service, in the same order, so no entry of a buffer is absent from  *)
(* the store.                                                              *)
C29_CacheWithinStore ==
  (Running /\ pc = "sleep") =>
     \A n \in ConfNames(services) :
        LET rows == Where(db, n)
        IN  /\ Len(metrics[n]) = Min(Len(rows), CacheCap)
            /\ \A k \in 1..Len(metrics[n]) :
                  Stored(metrics[n][k], rows[Len(rows) - Len(metrics[n]) + k])

(* C30: a step that writes the cache changes only the buffer of the        *)
(* service whose check produced the result, and when the loop goes on to   *)
(* the next service the result is in the buffer of that service and in a   *)
(* row of the store under the name and the type of that service.           *)
C30_RecordedUnderOwnService ==
  [][/\ metrics' # metrics =>
           \A n \in ConfNames(services) \ {services[idx].name} : metrics'[n] = metrics[n]
     /\ (pc = "alert" /\ pc' = "for") =>
           /\ res = history[services[idx].name][Len(history[services[idx].name])]
           /\ res = metrics[services[idx].name][Len(metrics[services[idx].name])]
           /\ \E i \in 1..Len(db) :
                 /\ db[i].service_name = services[idx].name
                 /\ db[i].service_type = services[idx].type
                 /\ Stored(res, db[i])]_vars

====
